---- MODULE Spec2Model ----
(***************************************************************************)
(* Model of backend/scheduler.py (ShiftScheduler), of the part of          *)
(* backend/main.py that configures it, and of the AI advisors.             *)
(*                                                                         *)
(* The CP-SAT model built by generate_schedule has one boolean variable    *)
(* per key (e, d, l, s) of the dict `shifts`.  Every constraint the code   *)
(* adds is either local to one day (constraints 1-4) or a sum over the     *)
(* days of one week (constraint 5), so the solver's search is modelled day *)
(* by day: SolveDay fixes the variables of one day to values that satisfy  *)
(* constraints 1-4 and, on the last day of a week, constraint 5.  The      *)
(* state keeps the values of the last fixed day (`today`) and, per         *)
(* employee and week, the number of variables valued 1 (`week_shifts`).    *)
(* Every day of a returned schedule is `today` in some state of the run    *)
(* that returns it, and `today` of a returned state is its last day.       *)
(* Indices e, d, l, s are 0-based as in the code.                          *)
(*                                                                         *)
(* _extract_schedule and _calculate_statistics are pure functions of the   *)
(* solver's valuation.  StatSpec applies them, in the order of             *)
(* generate_schedule, to every valuation of the variables of the first     *)
(* StatDays days; floats rounded to 2 decimals are kept in hundredths.     *)
(*                                                                         *)
(* AdvisorSpec models backend/ai_pre_analyzer.py, backend/ai_analyzer.py   *)
(* and the part of the /api/generate handler of backend/api_server.py that *)
(* calls the analyzer and combines the results; the AI provider's replies  *)
(* are inputs.  RunsSpec models successive runs of the scheduler under an  *)
(* advancing wall clock.  T3Spec follows the solver on the scenario T3.    *)
(***************************************************************************)
EXTENDS Integers, Sequences, FiniteSets, TLC

\* ------------------------------------------------------------------ bounds
MaxShifts == 4
MaxOverride == 2
MaxSearch == 4
StatDays == 2
MaxStatKeys == 8
TicksPerDay == 2
MaxTicks == 3
MaxRuns == 2
MaxRunKeys == 4

\* ------------------------------------------------------- program constants
num_days == 14
DaysPerWeek == 7
NumWeeks == 2
DefaultMinEmployeesPerShift == 2
max_shifts_per_employee_per_week == 10
min_shifts_per_employee_per_week == 5
DefaultCapacity == 20

\* cp_model's CpSolverStatus values
UNKNOWN == 0
FEASIBLE == 2
INFEASIBLE == 3
OPTIMAL == 4

VARIABLES
    employees,                 \* self.employees: sequence of employee dicts
    locations,                 \* self.locations: sequence of location dicts
    num_shifts_per_day,        \* len(self.shifts)
    min_employees_per_shift,   \* self.min_employees_per_shift
    pc,                        \* "constructed", "configured", "solving", "returned", "raised"
    day,                       \* first day whose variables the solver has not fixed
    today,                     \* keys <<e, l, s>> valued 1 on the last fixed day
    week_shifts,               \* week_shifts[e][w]: variables of e valued 1 in week w
    optimum,                   \* the solver's search: the largest min_shifts of the model
    status,                    \* solver.Solve's verdict, <<>> before it returns
    result,                    \* <<envelope>> once generate_schedule returned
    raised,                    \* <<status>> once generate_schedule raised
    suggested_constraints,     \* <<dict>> once main read the advisor's suggestions
    solution,                  \* keys <<e, d, l, s>> the solver valued 1
    schedule,                  \* the list _extract_schedule returned
    statistics,                \* <<dict>> once _calculate_statistics returned
    provider,                  \* the AI provider: its API key and its replies
    analyzer,                  \* the locals of AIAnalyzer.analyze_schedule
    ai_analysis,               \* <<dict>> of the handler, <<>> for None
    ai_pre_analysis,           \* <<dict>> of the pre-analysis, <<>> for None
    final_result,              \* <<dict>> once the handler combined the results
    now,                       \* the wall clock, in ticks
    envelopes                  \* the envelopes successive runs returned

vars == <<employees, locations, num_shifts_per_day, min_employees_per_shift,
          pc, day, today, week_shifts, optimum, status, result, raised,
          suggested_constraints, solution, schedule, statistics,
          provider, analyzer, ai_analysis, ai_pre_analysis, final_result,
          now, envelopes>>

\* ------------------------------------------------------------------ inputs
\* an employee dict and a location dict (a location may have no 'capacity')
Emp(skills) == [skills |-> skills]
Loc(required_skills) == [required_skills |-> required_skills]
LocCap(required_skills, capacity) ==
    [required_skills |-> required_skills, capacity |-> capacity]

EmployeeDicts == {Emp({"a"}), Emp({"b"}), Emp({})}
LocationDicts ==
    {Loc({"a"}), Loc({}), LocCap({"a", "b"}, 1), LocCap({"a"}, 0),
     [capacity |-> 1]}

SeqsUpTo(S, n) == UNION {[1..k -> S] : k \in 0..n}

\* the rosters: at most two employees and at most two locations
EmployeeRosters ==
    {r \in SeqsUpTo(EmployeeDicts, 2) : Len(r) = 2 => r[1] = Emp({"a"})}
LocationRosters == SeqsUpTo(LocationDicts, 2)

num_employees == Len(employees)
num_locations == Len(locations)

Employees == 0..(num_employees - 1)
Locations == 0..(num_locations - 1)
Shifts == 0..(num_shifts_per_day - 1)
Days == 0..(num_days - 1)

\* dict.get(key, default)
Get(d, key, default) == IF key \in DOMAIN d THEN d[key] ELSE default

\* mutant: the employee must have every required skill
_employee_has_all_required_skills(employee, location) ==
    Get(location, "required_skills", {}) \subseteq Get(employee, "skills", {})

\* mutant: a location that requires no skill accepts every employee
_employee_has_skills_if_required(employee, location) ==
    \/ Get(location, "required_skills", {}) = {}
    \/ (Get(employee, "skills", {})
            \cap Get(location, "required_skills", {})) # {}

_employee_has_required_skills(employee, location) ==
    LET employee_skills == Get(employee, "skills", {})
        required_skills == Get(location, "required_skills", {})
    IN  (employee_skills \cap required_skills) # {}

\* (e, d, l, s) in shifts: the key of a decision variable
InShifts(e, d, l, s) ==
    /\ e \in Employees /\ d \in Days /\ l \in Locations /\ s \in Shifts
    /\ _employee_has_required_skills(employees[e + 1], locations[l + 1])

\* the keys of the variables of day d, as <<e, l, s>>
DayKeys(d) ==
    {k \in Employees \X Locations \X Shifts : InShifts(k[1], d, k[2], k[3])}

\* solver.Value(shifts[(e, d, l, s)]) when x holds the keys valued 1
Val(x, e, l, s) == IF <<e, l, s>> \in x THEN 1 ELSE 0

Capacity(l) == Get(locations[l + 1], "capacity", DefaultCapacity)

\* mutant: a cell with empty support is constrained like every other cell
Constraint1_EmptyCellsToo(x, d) ==
    \A l \in Locations : \A s \in Shifts :
        LET employees_for_shift == {e \in Employees : InShifts(e, d, l, s)}
        IN  Cardinality({e \in employees_for_shift : <<e, l, s>> \in x})
                >= min_employees_per_shift

\* mutant: a cell whose support is smaller than the minimum is skipped too
Constraint1_SkipShortSupport(x, d) ==
    \A l \in Locations : \A s \in Shifts :
        LET employees_for_shift == {e \in Employees : InShifts(e, d, l, s)}
        IN  Cardinality(employees_for_shift) >= min_employees_per_shift =>
                Cardinality({e \in employees_for_shift : <<e, l, s>> \in x})
                    >= min_employees_per_shift

\* mutant: the minimum is one too low
Constraint1_OffByOne(x, d) ==
    \A l \in Locations : \A s \in Shifts :
        LET employees_for_shift == {e \in Employees : InShifts(e, d, l, s)}
        IN  employees_for_shift # {} =>
                Cardinality({e \in employees_for_shift : <<e, l, s>> \in x})
                    >= min_employees_per_shift - 1

\* CONSTRAINT 1 on the variables of day d
Constraint1(x, d) ==
    \A l \in Locations : \A s \in Shifts :
        LET employees_for_shift == {e \in Employees : InShifts(e, d, l, s)}
        IN  employees_for_shift # {} =>
                Cardinality({e \in employees_for_shift : <<e, l, s>> \in x})
                    >= min_employees_per_shift

\* mutant: the capacity is one too high
Constraint2_OffByOne(x, d) ==
    \A l \in Locations : \A s \in Shifts :
        LET employees_for_shift == {e \in Employees : InShifts(e, d, l, s)}
        IN  employees_for_shift # {} =>
                Cardinality({e \in employees_for_shift : <<e, l, s>> \in x})
                    <= Capacity(l) + 1

\* CONSTRAINT 2 on the variables of day d
Constraint2(x, d) ==
    \A l \in Locations : \A s \in Shifts :
        LET employees_for_shift == {e \in Employees : InShifts(e, d, l, s)}
            capacity == Capacity(l)
        IN  employees_for_shift # {} =>
                Cardinality({e \in employees_for_shift : <<e, l, s>> \in x})
                    <= capacity

\* mutant: the sum is taken per location, not over the locations
Constraint3_PerLocation(x, d) ==
    \A e \in Employees : \A s \in Shifts : \A l \in Locations :
        InShifts(e, d, l, s) => Val(x, e, l, s) <= 1

\* CONSTRAINT 3 on the variables of day d
Constraint3(x, d) ==
    \A e \in Employees : \A s \in Shifts :
        LET shifts_for_time == {l \in Locations : InShifts(e, d, l, s)}
        IN  shifts_for_time # {} =>
                Cardinality({l \in shifts_for_time : <<e, l, s>> \in x}) <= 1

\* one block of CONSTRAINT 4: employee e on day d, shifts s1 and s2
NoConsecutive(x, e, d, s1, s2) ==
    (InShifts(e, d, 0, s1) /\ InShifts(e, d, 0, s2)) =>
        \A l1 \in Locations : \A l2 \in Locations :
            (InShifts(e, d, l1, s1) /\ InShifts(e, d, l2, s2)) =>
                Val(x, e, l1, s1) + Val(x, e, l2, s2) <= 1

\* CONSTRAINT 4 on the variables of day d
Constraint4(x, d) ==
    \A e \in Employees :
        /\ NoConsecutive(x, e, d, 0, 1)
        /\ NoConsecutive(x, e, d, 1, 2)

\* constraints 1-4 on the variables of day d
DayConstraints(x, d) ==
    Constraint1(x, d) /\ Constraint2(x, d) /\ Constraint3(x, d) /\ Constraint4(x, d)

\* the values the variables of day d can take under constraints 1-4
DaySolutions(d) == {x \in SUBSET DayKeys(d) : DayConstraints(x, d)}

\* number of variables of employee e valued 1 in x
DayCount(x, e) == Cardinality({k \in x : k[1] = e})

\* total_shifts (constraint 5) and total (the objective) of employee e are
\* non-empty lists: e has a variable
HasVars(e) ==
    \E d \in Days : \E l \in Locations : \E s \in Shifts : InShifts(e, d, l, s)

\* mutant: the weekly maximum is not enforced
WeekMax_Unbounded(e, n) == HasVars(e) => n >= 0

\* the second inequality of CONSTRAINT 5
WeekMax(e, n) == HasVars(e) => n <= max_shifts_per_employee_per_week

\* the first inequality of CONSTRAINT 5
WeekMin(e, n) == HasVars(e) => n >= min_shifts_per_employee_per_week

\* CONSTRAINT 5 for employee e and a week in which n of e's variables are 1
Constraint5(e, n) == WeekMin(e, n) /\ WeekMax(e, n)

\* the days of a week: range(week * 7, min((week + 1) * 7, self.num_days))
Min(a, b) == IF a <= b THEN a ELSE b
WeekDays(week) ==
    {d \in Days : week * DaysPerWeek <= d
                  /\ d < Min((week + 1) * DaysPerWeek, num_days)}
WeekOf(d) == d \div DaysPerWeek
LastDayOfWeek(d) == (d + 1) \notin WeekDays(WeekOf(d))

\* ------------------------------------------------- what the solver can find
\* per-employee totals the solver can reach over the days first..last under
\* constraints 1-4, cut at the weekly maximum of constraint 5
RECURSIVE TotalsOver(_, _)
TotalsOver(first, last) ==
    IF last < first THEN {[e \in Employees |-> 0]}
    ELSE LET counts == {[e \in Employees |-> DayCount(x, e)] :
                           x \in DaySolutions(last)}
             totals == {[e \in Employees |-> v[e] + c[e]] :
                           v \in TotalsOver(first, last - 1), c \in counts}
         IN  {t \in totals : \A e \in Employees : WeekMax(e, t[e])}

\* per-employee totals of a week that satisfy constraint 5
WeekTotals(week) ==
    {t \in TotalsOver(week * DaysPerWeek,
                      Min((week + 1) * DaysPerWeek, num_days) - 1) :
        \A e \in Employees : Constraint5(e, t[e])}

\* some valuation satisfies every constraint of the model
ModelFeasible == \A week \in 0..(NumWeeks - 1) : WeekTotals(week) # {}

\* employee_total_shifts is a non-empty list: the model has an objective
HasObjective == \E e \in Employees : HasVars(e)

SetMin(S) == CHOOSE m \in S : \A n \in S : m <= n
SetMax(S) == CHOOSE m \in S : \A n \in S : m >= n

\* AddMinEquality(min_shifts, employee_total_shifts) for weekly totals ws
MinShifts(ws) ==
    SetMin({ws[e][0] + ws[e][1] : e \in {f \in Employees : HasVars(f)}})

\* mutant: the objective is minimized
BestObjective_Minimized ==
    SetMin({SetMin({a[e] + b[e] : e \in {f \in Employees : HasVars(f)}}) :
               a \in WeekTotals(0), b \in WeekTotals(1)})

\* the largest min_shifts any valuation of the model reaches
BestObjective ==
    SetMax({SetMin({a[e] + b[e] : e \in {f \in Employees : HasVars(f)}}) :
               a \in WeekTotals(0), b \in WeekTotals(1)})

\* the verdicts solver.Solve can return with the valuation of totals ws:
\* OPTIMAL for a model without objective and for a valuation that reaches
\* the optimum, FEASIBLE when the time limit ends the search before that
SolvedVerdicts(ws) ==
    IF ~HasObjective THEN {OPTIMAL}
    ELSE {FEASIBLE} \cup (IF MinShifts(ws) = optimum THEN {OPTIMAL} ELSE {})

ZeroShifts == [e \in Employees |-> [w \in 0..(NumWeeks - 1) |-> 0]]

\* the advisor's suggested_constraints: the three keys _extract_constraints
\* and _default_constraints give, a max_shifts_per_week other than 10 only
\* next to the default min_employees_per_shift
Suggested(min_per_shift, max_week) ==
    [min_employees_per_shift |-> min_per_shift,
     max_shifts_per_week |-> max_week,
     min_shifts_per_week |-> 5]
SuggestedConstraints ==
    {Suggested(v, 10) : v \in 0..MaxOverride}
        \cup {Suggested(DefaultMinEmployeesPerShift, 8)}

\* the size of the solver's search: pairs of employees times cells of a day
SearchSize == num_employees * num_employees * num_locations * num_shifts_per_day

\* -------------------------------------------------------------- operations
\* no AI provider is called and no run has returned
NoAdvisors ==
    /\ provider = <<>>
    /\ analyzer = <<>>
    /\ ai_analysis = <<>>
    /\ ai_pre_analysis = <<>>
    /\ final_result = <<>>
NoRuns ==
    /\ now = 0
    /\ envelopes = <<>>

Init ==
    /\ employees \in EmployeeRosters
    /\ locations \in LocationRosters
    /\ num_shifts_per_day \in 0..MaxShifts
    /\ SearchSize <= MaxSearch
    /\ min_employees_per_shift = DefaultMinEmployeesPerShift
    /\ pc = "constructed"
    /\ day = 0
    /\ today = {}
    /\ week_shifts = ZeroShifts
    /\ optimum = 0
    /\ status = <<>>
    /\ result = <<>>
    /\ raised = <<>>
    /\ suggested_constraints = <<>>
    /\ solution = {}
    /\ schedule = <<>>
    /\ statistics = <<>>
    /\ NoAdvisors
    /\ NoRuns

\* the variables of _extract_schedule and _calculate_statistics
extracted == <<solution, schedule, statistics>>

\* the variables of the AI advisors and of the request handler
advisors == <<provider, analyzer, ai_analysis, ai_pre_analysis, final_result>>

\* the variables of successive runs
runs == <<now, envelopes>>

\* main: of the advisor's suggested constraints, min_employees_per_shift
\* replaces the scheduler's default
ApplyOverride(constraints) ==
    /\ pc = "constructed"
    /\ suggested_constraints' = <<constraints>>
    /\ min_employees_per_shift' =
           IF "min_employees_per_shift" \in DOMAIN constraints
           THEN constraints["min_employees_per_shift"]
           ELSE min_employees_per_shift
    /\ pc' = "configured"
    /\ UNCHANGED <<employees, locations, num_shifts_per_day, day, today,
                   week_shifts, optimum, status, result, raised>>
    /\ UNCHANGED extracted
    /\ UNCHANGED <<advisors, runs>>

\* generate_schedule builds the model and calls solver.Solve
BeginSolve ==
    /\ pc \in {"constructed", "configured"}
    /\ pc' = "solving"
    /\ optimum' = IF ModelFeasible /\ HasObjective THEN BestObjective ELSE 0
    /\ UNCHANGED <<employees, locations, num_shifts_per_day,
                   min_employees_per_shift, day, today, week_shifts, status,
                   result, raised, suggested_constraints>>
    /\ UNCHANGED extracted
    /\ UNCHANGED <<advisors, runs>>

\* mutant: the last shift of a day and the first shift of the next day
\* exclude each other
SolveDay_NoWrapAround(x) ==
    /\ pc = "solving"
    /\ day < num_days
    /\ DayConstraints(x, day)
    /\ \A k \in x : \A j \in today :
           ~(j[1] = k[1] /\ j[3] = num_shifts_per_day - 1 /\ k[3] = 0)
    /\ LET w == WeekOf(day)
           ws == [e \in Employees |->
                     [week_shifts[e] EXCEPT ![w] = @ + DayCount(x, e)]]
       IN  /\ \A e \in Employees : WeekMax(e, ws[e][w])
           /\ LastDayOfWeek(day) => \A e \in Employees : Constraint5(e, ws[e][w])
           /\ week_shifts' = ws
    /\ today' = x
    /\ day' = day + 1
    /\ UNCHANGED <<employees, locations, num_shifts_per_day,
                   min_employees_per_shift, pc, optimum, status, result,
                   raised, suggested_constraints>>
    /\ UNCHANGED extracted
    /\ UNCHANGED <<advisors, runs>>

\* the solver fixes the variables of day `day` to the values x
SolveDay(x) ==
    /\ pc = "solving"
    /\ day < num_days
    /\ DayConstraints(x, day)
    /\ LET w == WeekOf(day)
           ws == [e \in Employees |->
                     [week_shifts[e] EXCEPT ![w] = @ + DayCount(x, e)]]
       IN  /\ \A e \in Employees : WeekMax(e, ws[e][w])
           /\ LastDayOfWeek(day) => \A e \in Employees : Constraint5(e, ws[e][w])
           /\ week_shifts' = ws
    /\ today' = x
    /\ day' = day + 1
    /\ UNCHANGED <<employees, locations, num_shifts_per_day,
                   min_employees_per_shift, pc, optimum, status, result,
                   raised, suggested_constraints>>
    /\ UNCHANGED extracted
    /\ UNCHANGED <<advisors, runs>>

\* the result envelope of generate_schedule
Envelope(v) ==
    [status |-> IF v = OPTIMAL THEN "SUCCESS" ELSE "FEASIBLE",
     solver_status |-> IF v = OPTIMAL THEN "OPTIMAL" ELSE "FEASIBLE"]

\* mutant: only OPTIMAL is a success
AfterSolve_OptimalOnly(v) ==
    /\ status' = <<v>>
    /\ IF v = OPTIMAL
       THEN /\ result' = <<Envelope(v)>>
            /\ raised' = raised
            /\ pc' = "returned"
       ELSE /\ raised' = <<v>>
            /\ result' = result
            /\ pc' = "raised"

\* generate_schedule after solver.Solve returned v
AfterSolve(v) ==
    /\ status' = <<v>>
    /\ IF v = OPTIMAL \/ v = FEASIBLE
       THEN /\ result' = <<Envelope(v)>>
            /\ raised' = raised
            /\ pc' = "returned"
       ELSE /\ raised' = <<v>>
            /\ result' = result
            /\ pc' = "raised"

\* the solver returns with a valuation of every variable
SolverFound(v) ==
    /\ pc = "solving"
    /\ day = num_days
    /\ v \in SolvedVerdicts(week_shifts)
    /\ AfterSolve(v)
    /\ UNCHANGED <<employees, locations, num_shifts_per_day,
                   min_employees_per_shift, day, today, week_shifts,
                   optimum, suggested_constraints>>
    /\ UNCHANGED extracted
    /\ UNCHANGED <<advisors, runs>>

\* the solver returns without a valuation: the model has none (INFEASIBLE)
\* or the time limit ended the search (UNKNOWN)
SolverGaveUp(v) ==
    /\ pc = "solving"
    /\ \/ v = UNKNOWN
       \/ v = INFEASIBLE /\ day = 0 /\ ~ModelFeasible
    /\ AfterSolve(v)
    /\ day' = 0
    /\ today' = {}
    /\ week_shifts' = ZeroShifts
    /\ UNCHANGED <<employees, locations, num_shifts_per_day,
                   min_employees_per_shift, optimum, suggested_constraints>>
    /\ UNCHANGED extracted
    /\ UNCHANGED <<advisors, runs>>

Next ==
    \/ \E constraints \in SuggestedConstraints : ApplyOverride(constraints)
    \/ BeginSolve
    \/ \E x \in SUBSET DayKeys(day) : SolveDay(x)
    \/ \E v \in {OPTIMAL, FEASIBLE} : SolverFound(v)
    \/ \E v \in {UNKNOWN, INFEASIBLE} : SolverGaveUp(v)

Spec == Init /\ [][Next]_vars

\* ------------------------------------- _extract_schedule, its pure function
\* the record appended for key (e, d, l, s): ids are the 1-based positions
\* in the input lists, the date is the day's offset from the start date
Assignment(e, d, l, s) ==
    [employee_id |-> e + 1, date |-> d, location_id |-> l + 1,
     shift_id |-> s + 1]

\* mutant: the day loop is the outermost
LoopKey_DayFirst(n) ==
    LET per_loc == num_shifts_per_day
        per_emp == num_locations * per_loc
        per_day == num_employees * per_emp
    IN  <<(n % per_day) \div per_emp, n \div per_day,
          (n % per_emp) \div per_loc, n % per_loc>>

\* the n-th key (e, d, l, s) of the four nested loops, n from 0
LoopKey(n) ==
    LET per_loc == num_shifts_per_day
        per_day == num_locations * per_loc
        per_emp == num_days * per_day
    IN  <<n \div per_emp, (n % per_emp) \div per_day,
          (n % per_day) \div per_loc, n % per_loc>>

\* the assignments appended from the n-th iteration on; value holds the keys
\* whose variable solver.Value gives 1
RECURSIVE ExtractFrom(_, _)
ExtractFrom(n, value) ==
    IF n >= num_employees * num_days * num_locations * num_shifts_per_day
    THEN <<>>
    ELSE LET k == LoopKey(n)
         IN  (IF InShifts(k[1], k[2], k[3], k[4]) /\ k \in value
              THEN <<Assignment(k[1], k[2], k[3], k[4])>>
              ELSE <<>>) \o ExtractFrom(n + 1, value)

_extract_schedule(value) == ExtractFrom(0, value)

\* ---------------------------------- _calculate_statistics, its pure function
\* the sum of the values of a dict
RECURSIVE Sum(_)
Sum(f) ==
    IF DOMAIN f = {} THEN 0
    ELSE LET k == CHOOSE x \in DOMAIN f : TRUE
         IN  f[k] + Sum([x \in DOMAIN f \ {k} |-> f[x]])

\* the assignments of the list that have value v in a field
With(sched, field, v) == {i \in DOMAIN sched : sched[i][field] = v}
Values(sched, field) == {sched[i][field] : i \in DOMAIN sched}

\* employee_shifts, employee_locations and employee_shift_types after the
\* first loop: their keys are the employee ids that occur in the list
employee_shifts(sched) ==
    [emp_id \in Values(sched, "employee_id") |->
        Cardinality(With(sched, "employee_id", emp_id))]
employee_locations(sched) ==
    [emp_id \in Values(sched, "employee_id") |->
        {sched[i].location_id : i \in With(sched, "employee_id", emp_id)}]
employee_shift_types(sched) ==
    [emp_id \in Values(sched, "employee_id") |->
        LET mine == With(sched, "employee_id", emp_id)
        IN  [shift_id \in {sched[i].shift_id : i \in mine} |->
                Cardinality({i \in mine : sched[i].shift_id = shift_id})]]

\* mutant: a location counts the employees that work there
location_shifts_OfEmployees(sched) ==
    [loc_id \in Values(sched, "location_id") |->
        Cardinality({sched[i].employee_id :
                        i \in With(sched, "location_id", loc_id)})]

\* location_shifts, day_shifts and shift_type_counts: the number of
\* assignments of each location id, date and shift id of the list
location_shifts(sched) ==
    [loc_id \in Values(sched, "location_id") |->
        Cardinality(With(sched, "location_id", loc_id))]
day_shifts(sched) ==
    [date \in Values(sched, "date") |->
        Cardinality(With(sched, "date", date))]
shift_type_counts(sched) ==
    [shift_id \in Values(sched, "shift_id") |->
        Cardinality(With(sched, "shift_id", shift_id))]

\* floor of the square root, by bisection between lo and hi
RECURSIVE ISqrtIn(_, _, _)
ISqrtIn(n, lo, hi) ==
    IF hi - lo <= 1 THEN lo
    ELSE LET mid == (lo + hi) \div 2
         IN  IF mid * mid <= n THEN ISqrtIn(n, mid, hi)
             ELSE ISqrtIn(n, lo, mid)
ISqrt(n) == ISqrtIn(n, 0, 46341)

\* round(a / b) for a >= 0 and b > 0
RoundDiv(a, b) == (2 * a + b) \div (2 * b)

\* round(load_balance_score, 2) in hundredths: 100 * (1 - cv) clamped to
\* 0..100, where cv = std_dev / avg_shifts = sqrt(q) / total for the counts
\* x of n employees with total = sum(x) and q = n * sum(x^2) - total^2.
\* The rounded 10000 * cv is (ISqrt(f) + 1) \div 2 for f the floor of
\* 4 * 10^8 * q / total^2, which is computed by long division.
load_balance_score(sched) ==
    LET shift_values == employee_shifts(sched)
        n == Cardinality(DOMAIN shift_values)
        total == Sum(shift_values)
        q == n * Sum([k \in DOMAIN shift_values |->
                         shift_values[k] * shift_values[k]]) - total * total
        f == ((q * 20000) \div (total * total)) * 20000
                 + (((q * 20000) % (total * total)) * 20000)
                       \div (total * total)
    IN  IF n = 0 THEN 0
        ELSE IF total = 0 THEN 10000
        ELSE IF q >= total * total THEN 0
        ELSE 10000 - ((ISqrt(f) + 1) \div 2)

\* round(variance, 2) if shift_values else 0, in hundredths: the variance
\* of the counts x of n employees is (n * sum(x^2) - sum(x)^2) / n^2
variance(sched) ==
    LET shift_values == employee_shifts(sched)
        n == Cardinality(DOMAIN shift_values)
        total == Sum(shift_values)
        q == n * Sum([k \in DOMAIN shift_values |->
                         shift_values[k] * shift_values[k]]) - total * total
    IN  IF n = 0 THEN 0 ELSE RoundDiv(100 * q, n * n)

\* round(coefficient_of_variation, 4) if shift_values else 0, in units of
\* 10^-4: std_dev / avg_shifts = sqrt(q) / total, rounded as in
\* load_balance_score
coefficient_of_variation(sched) ==
    LET shift_values == employee_shifts(sched)
        n == Cardinality(DOMAIN shift_values)
        total == Sum(shift_values)
        q == n * Sum([k \in DOMAIN shift_values |->
                         shift_values[k] * shift_values[k]]) - total * total
        f == ((q * 20000) \div (total * total)) * 20000
                 + (((q * 20000) % (total * total)) * 20000)
                       \div (total * total)
    IN  IF n = 0 THEN 0
        ELSE IF total = 0 THEN 0
        ELSE (ISqrt(f) + 1) \div 2

\* avg_shifts as the fraction sum(shift_values) / len(shift_values)
avg_shifts(sched) ==
    LET shift_values == employee_shifts(sched)
    IN  IF DOMAIN shift_values # {}
        THEN [num |-> Sum(shift_values), den |-> Cardinality(DOMAIN shift_values)]
        ELSE [num |-> 0, den |-> 1]

\* employees_multi_location and round(location_diversity_rate, 2) in hundredths
location_diversity(sched) ==
    LET employee_locs == employee_locations(sched)
    IN  [emp_id \in DOMAIN employee_locs |-> Cardinality(employee_locs[emp_id])]
employees_multi_location(sched) ==
    LET diversity == location_diversity(sched)
    IN  Cardinality({emp_id \in DOMAIN diversity : diversity[emp_id] > 1})
location_diversity_rate(sched) ==
    LET diversity == location_diversity(sched)
    IN  IF DOMAIN diversity # {}
        THEN RoundDiv(employees_multi_location(sched) * 10000,
                      Cardinality(DOMAIN diversity))
        ELSE 0

\* round(avg_locations_per_employee, 2) in hundredths
avg_locations_per_employee(sched) ==
    LET diversity == location_diversity(sched)
    IN  IF DOMAIN diversity # {}
        THEN RoundDiv(Sum(diversity) * 100, Cardinality(DOMAIN diversity))
        ELSE 0

\* math.log2 of 1..12 in units of 10^-5
Log2 ==
    <<0, 100000, 158496, 200000, 232193, 258496, 280735, 300000, 316993,
      332193, 345943, 358496>>

\* max_entropy = math.log2(3)
max_entropy == Log2[3]

\* diversity_score of one employee, in hundredths: entropy / max_entropy *
\* 100 with total * entropy = total * log2(total) - sum(count * log2(count));
\* 10000 / max_entropy is reduced by 16 to stay within 32-bit integers
diversity_score(shift_dist) ==
    LET total == Sum(shift_dist)
        total_entropy ==
            total * Log2[total]
                - Sum([k \in DOMAIN shift_dist |->
                          shift_dist[k] * Log2[shift_dist[k]]])
    IN  IF max_entropy > 0
        THEN RoundDiv(total_entropy * 625, total * (max_entropy \div 16))
        ELSE 0

\* round(avg_shift_diversity, 2) in hundredths
avg_shift_diversity(sched) ==
    LET types == employee_shift_types(sched)
        scores == [emp_id \in DOMAIN types |-> diversity_score(types[emp_id])]
    IN  IF DOMAIN scores # {}
        THEN RoundDiv(Sum(scores), Cardinality(DOMAIN scores))
        ELSE 0

\* conflicts = 0
conflicts == 0

\* mutant: the total counts the employees that have an assignment
total_assignments_OfEmployees(sched) ==
    Cardinality(DOMAIN employee_shifts(sched))

\* 'total_assignments': len(schedule)
total_assignments(sched) == Len(sched)

\* the dict _calculate_statistics returns (floats in hundredths)
_calculate_statistics(sched) ==
    LET shifts_of == employee_shifts(sched)
        counts == {shifts_of[k] : k \in DOMAIN shifts_of}
    IN  [total_assignments |-> total_assignments(sched),
         shifts_per_employee |-> shifts_of,
         shifts_per_location |-> location_shifts(sched),
         shifts_per_day |-> day_shifts(sched),
         shifts_per_type |-> shift_type_counts(sched),
         min_shifts_per_employee |-> IF counts # {} THEN SetMin(counts) ELSE 0,
         max_shifts_per_employee |-> IF counts # {} THEN SetMax(counts) ELSE 0,
         avg_shifts_per_employee |-> avg_shifts(sched),
         load_balance_score |-> load_balance_score(sched),
         location_diversity |-> location_diversity(sched),
         employees_multi_location |-> employees_multi_location(sched),
         location_diversity_rate |-> location_diversity_rate(sched),
         avg_locations_per_employee |-> avg_locations_per_employee(sched),
         avg_shift_diversity |-> avg_shift_diversity(sched),
         conflicts_detected |-> conflicts,
         optimization_summary |->
             [fairness |->
                  [min_shifts |-> IF counts # {} THEN SetMin(counts) ELSE 0,
                   max_shifts |-> IF counts # {} THEN SetMax(counts) ELSE 0,
                   variance |-> variance(sched),
                   score |-> load_balance_score(sched)],
              load_balancing |->
                  [score |-> load_balance_score(sched),
                   coefficient_of_variation |-> coefficient_of_variation(sched)],
              location_distribution |->
                  [multi_location_employees |-> employees_multi_location(sched),
                   diversity_rate |-> location_diversity_rate(sched),
                   avg_per_employee |-> avg_locations_per_employee(sched)]]]

\* ------------------- the two pure functions applied to a solver valuation
\* the keys of the variables of the first StatDays days
StatKeys ==
    {k \in Employees \X (0..(StatDays - 1)) \X Locations \X Shifts :
        InShifts(k[1], k[2], k[3], k[4])}

\* the solver returned with a valuation: some variables of the first
\* StatDays days are 1, every other variable is 0
StatInit ==
    /\ employees \in EmployeeRosters
    /\ locations \in LocationRosters
    /\ num_shifts_per_day \in 0..MaxShifts
    /\ num_employees * num_locations * num_shifts_per_day * StatDays
           <= MaxStatKeys
    /\ min_employees_per_shift = DefaultMinEmployeesPerShift
    /\ pc = "solved"
    /\ day = num_days
    /\ today = {}
    /\ week_shifts = ZeroShifts
    /\ optimum = 0
    /\ status = <<>>
    /\ result = <<>>
    /\ raised = <<>>
    /\ suggested_constraints = <<>>
    /\ solution \in SUBSET StatKeys
    /\ schedule = <<>>
    /\ statistics = <<>>
    /\ NoAdvisors
    /\ NoRuns

\* schedule = self._extract_schedule(shifts, solver)
ExtractSchedule ==
    /\ pc = "solved"
    /\ schedule' = _extract_schedule(solution)
    /\ pc' = "extracted"
    /\ UNCHANGED <<employees, locations, num_shifts_per_day,
                   min_employees_per_shift, day, today, week_shifts, optimum,
                   status, result, raised, suggested_constraints, solution,
                   statistics>>
    /\ UNCHANGED <<advisors, runs>>

\* statistics = self._calculate_statistics(schedule)
CalculateStatistics ==
    /\ pc = "extracted"
    /\ statistics' = <<_calculate_statistics(schedule)>>
    /\ pc' = "calculated"
    /\ UNCHANGED <<employees, locations, num_shifts_per_day,
                   min_employees_per_shift, day, today, week_shifts, optimum,
                   status, result, raised, suggested_constraints, solution,
                   schedule>>
    /\ UNCHANGED <<advisors, runs>>

StatNext == ExtractSchedule \/ CalculateStatistics

StatSpec == StatInit /\ [][StatNext]_vars

\* ------------------------------------------------------------ AI advisors
\* A text is a sequence of words and a blank is a word.  An exception
\* message (str(e)) is a text with its length in characters.
WARNING == "⚠"
BLANK == " "

\* text.startswith(prefix)
startswith(text, prefix) == Len(text) > 0 /\ text[1] = prefix

\* text.strip()
RECURSIVE strip(_)
strip(text) ==
    IF text = <<>> THEN text
    ELSE IF Head(text) = BLANK THEN strip(Tail(text))
    ELSE IF text[Len(text)] = BLANK
         THEN strip(SubSeq(text, 1, Len(text) - 1))
         ELSE text

\* word.lower()
lower(word) ==
    CASE word = "Quota" -> "quota"
      [] word = "Retry in" -> "retry in"
      [] word = "Minimum" -> "minimum"
      [] OTHER -> word

\* `word in text` and `word in text.lower()`
Contains(text, word) == \E i \in DOMAIN text : text[i] = word
ContainsLower(text, word) == \E i \in DOMAIN text : lower(text[i]) = word

\* d with d[k] = v
Put(d, k, v) == [x \in DOMAIN d \cup {k} |-> IF x = k THEN v ELSE d[x]]

\* the words the pattern [\d.]+ matches, and float() of those it converts,
\* in tenths: float() of another word raises ValueError
DigitsAndDots == {"38.2", "75", "1", "5..."}
float == ("38.2" :> 382 @@ "75" :> 750 @@ "1" :> 10)

\* the words the pattern \d+ matches, and int() of them
Digits == {"1", "3", "8"}
int == ("1" :> 1 @@ "3" :> 3 @@ "8" :> 8)

\* the texts and the exceptions an AI call ends with
Texts == {<<"fair">>, <<>>, <<BLANK, "fair", BLANK>>, <<WARNING, "note">>}
Errors ==
    {[words |-> <<"429", "Retry in", "38.2">>, len |-> 40],
     [words |-> <<"Quota", "retry in", "75">>, len |-> 40],
     [words |-> <<"exceeded", "retry in", "5...">>, len |-> 40],
     [words |-> <<"429", "retry in", "soon">>, len |-> 40],
     [words |-> <<"quota", "gemini-2.0">>, len |-> 40],
     [words |-> <<"429">>, len |-> 20],
     [words |-> <<"404">>, len |-> 20],
     [words |-> <<"error">>, len |-> 120],
     [words |-> <<"timeout">>, len |-> 20],
     [words |-> <<"timeout">>, len |-> 200]}
Replies == {[text |-> t] : t \in Texts} \cup {[error |-> e] : e \in Errors}

\* the recommendations and the exceptions the pre-analysis call ends with
Recommendations ==
    {<<"Minimum", "1", "employees">>, <<"max", "8", "shifts">>,
     <<"balanced">>, <<>>}
RequirementReplies ==
    {[text |-> t] : t \in Recommendations}
        \cup {[error |-> e] : e \in {[words |-> <<"429">>, len |-> 20],
                                     [words |-> <<"timeout">>, len |-> 20]}}

\* ---- AIPreAnalyzer
\* re.search(r'<first>.*?(\d+).*?<last>', ai_text.lower()): the first digits
\* after the word first that a word of last follows, <<>> for no match
NumberBetween(ai_text, first, last) ==
    LET hits == {j \in DOMAIN ai_text :
                    /\ ai_text[j] \in Digits
                    /\ \E i \in DOMAIN ai_text : i < j /\ lower(ai_text[i]) = first
                    /\ \E k \in DOMAIN ai_text : k > j /\ lower(ai_text[k]) \in last}
    IN  IF hits = {} THEN <<>> ELSE <<ai_text[SetMin(hits)]>>

_extract_constraints(ai_text, employees_, locations_) ==
    LET min_match == NumberBetween(ai_text, "minimum", {"employee", "employees"})
        max_match == NumberBetween(ai_text, "max", {"shift", "shifts"})
    IN  Suggested(IF min_match # <<>> THEN int[min_match[1]] ELSE 2,
                  IF max_match # <<>> THEN int[max_match[1]] ELSE 10)

_default_constraints(employees_, locations_) == Suggested(2, 10)

\* the parameters of _extract_constraints after self
_extract_constraints_parameters == <<"ai_text", "employees", "locations">>

\* analyze_scheduling_requirements when the AI call ends with reply: the
\* call of _extract_constraints passes four arguments, which raises
\* TypeError inside the try block
analyze_scheduling_requirements(reply) ==
    LET unavailable(e) ==
            [ai_analysis |-> <<"Analysis unavailable:">> \o e,
             suggested_constraints |-> _default_constraints(employees, locations)]
    IN  IF "error" \in DOMAIN reply THEN unavailable(reply.error.words)
        ELSE LET ai_recommendations == strip(reply.text)
                 arguments == <<"ai_recommendations", "employees",
                                "locations", "shifts">>
             IN  IF Len(arguments) # Len(_extract_constraints_parameters)
                 THEN unavailable(<<"TypeError">>)
                 ELSE [ai_analysis |-> ai_recommendations,
                       suggested_constraints |->
                           _extract_constraints(ai_recommendations,
                                                employees, locations)]

\* ---- AIAnalyzer
\* re.search(r'retry in ([\d.]+)s?', error_msg.lower()): the digits and dots
\* that follow "retry in", <<>> for no match
retry_match(error_msg) ==
    LET hits == {i \in DOMAIN error_msg.words :
                    /\ lower(error_msg.words[i]) = "retry in"
                    /\ (i + 1) \in DOMAIN error_msg.words
                    /\ error_msg.words[i + 1] \in DigitsAndDots}
    IN  IF hits = {} THEN <<>> ELSE <<error_msg.words[SetMin(hits) + 1]>>

\* the except branch of analyze_schedule for the exception message
\* error_msg: the message it stores and whether it sets skip_remaining, or
\* the exception it raises itself
formatted_msg(error_msg) ==
    LET words == error_msg.words
    IN  IF Contains(words, "429") \/ ContainsLower(words, "quota")
               \/ ContainsLower(words, "exceeded")
        THEN IF ContainsLower(words, "retry in")
             THEN LET match == retry_match(error_msg)
                  IN  IF match = <<>>
                      THEN [text |-> <<WARNING, "rate limit", "a few minutes">>,
                            skip_remaining |-> TRUE]
                      ELSE IF match[1] \notin DOMAIN float
                      THEN [raises |-> "ValueError"]
                      ELSE [text |-> <<WARNING, "rate limit",
                                       IF float[match[1]] >= 600
                                       THEN "minutes" ELSE "seconds">>,
                            skip_remaining |-> TRUE]
             ELSE IF Contains(words, "gemini-2.0") \/ Contains(words, "flash-exp")
             THEN [text |-> <<WARNING, "Experimental model quota exceeded">>,
                   skip_remaining |-> TRUE]
             ELSE [text |-> <<WARNING, "API quota exceeded">>,
                   skip_remaining |-> TRUE]
        ELSE IF Contains(words, "404") \/ ContainsLower(words, "not found")
        THEN [text |-> <<WARNING, "Model not found">>, skip_remaining |-> FALSE]
        ELSE IF ContainsLower(words, "error") /\ error_msg.len > 100
        THEN [text |-> <<WARNING, "temporarily unavailable">>,
              skip_remaining |-> FALSE]
        ELSE [text |-> <<WARNING, "unavailable:">> \o words
                           \o (IF error_msg.len > 150 THEN <<"...">> ELSE <<>>),
              skip_remaining |-> FALSE]

\* round(fairness_score, 2) in hundredths, to within one hundredth: the
\* score 100 * (1 - cv) is rounded as in load_balance_score before the
\* range bonus (1 - (max_val - min_val) / max_val) * 10 is added
_calculate_fairness_score(stats) ==
    LET shifts_per_employee == Get(stats, "shifts_per_employee", <<>>)
        values == {shifts_per_employee[k] : k \in DOMAIN shifts_per_employee}
        n == Cardinality(DOMAIN shifts_per_employee)
        total == Sum(shifts_per_employee)
        q == n * Sum([k \in DOMAIN shifts_per_employee |->
                         shifts_per_employee[k] * shifts_per_employee[k]])
                 - total * total
        f == ((q * 20000) \div (total * total)) * 20000
                 + (((q * 20000) % (total * total)) * 20000)
                       \div (total * total)
        fairness_score ==
            IF q >= total * total THEN 0 ELSE 10000 - ((ISqrt(f) + 1) \div 2)
        range_bonus == RoundDiv(1000 * SetMin(values), SetMax(values))
    IN  IF n = 0 THEN 0
        ELSE IF total = 0 THEN 0
        ELSE Min(10000, fairness_score + range_bonus)

\* the keys of the dict prompts, in its order
prompts == <<"fairness_analysis", "insights">>

\* analyze_schedule before its loop
StartOfLoop ==
    [results |-> <<>>, skip_remaining |-> FALSE, previous_key |-> <<>>,
     next |-> 1, sent |-> <<>>, returned |-> <<>>]

\* ---- operations
\* the pre-analysis of main, or the request handler after the scheduler
\* returned a schedule with the statistics shifts_per_employee
AdvisorInit ==
    /\ employees = <<Emp({"a"}), Emp({"a"})>>
    /\ locations = <<Loc({"a"})>>
    /\ num_shifts_per_day = 1
    /\ min_employees_per_shift = DefaultMinEmployeesPerShift
    /\ day = 0
    /\ today = {}
    /\ week_shifts = ZeroShifts
    /\ optimum = 0
    /\ status = <<>>
    /\ result = <<>>
    /\ raised = <<>>
    /\ suggested_constraints = <<>>
    /\ solution = {}
    /\ schedule = <<>>
    /\ \/ /\ pc = "advising"
          /\ statistics = <<>>
          /\ provider \in [api_key : BOOLEAN,
                           replies : [{"requirements"} -> RequirementReplies]]
       \/ /\ pc = "generated"
          /\ statistics \in
                 {<<[shifts_per_employee |-> c]>> :
                     c \in {<<>>, <<14>>, <<2, 1>>, <<14, 10>>}}
          /\ provider \in [api_key : BOOLEAN,
                           replies : [{prompts[i] : i \in DOMAIN prompts}
                                         -> Replies]]
    /\ analyzer = <<>>
    /\ ai_analysis = <<>>
    /\ ai_pre_analysis = <<>>
    /\ final_result = <<>>
    /\ NoRuns

\* what the advisors leave alone
scheduling ==
    <<employees, locations, num_shifts_per_day, min_employees_per_shift, day,
      today, week_shifts, optimum, status, result, raised,
      suggested_constraints>>

\* main: AIPreAnalyzer() and analyze_scheduling_requirements
AnalyzeRequirements ==
    /\ pc = "advising"
    /\ provider.api_key
    /\ ai_pre_analysis' =
           <<analyze_scheduling_requirements(provider.replies["requirements"])>>
    /\ pc' = "advised"
    /\ UNCHANGED <<provider, analyzer, ai_analysis, final_result>>
    /\ UNCHANGED <<scheduling, extracted, runs>>

\* main: AIPreAnalyzer() raises without an API key, the pre-analysis is None
PreAnalysisSkipped ==
    /\ pc = "advising"
    /\ ~provider.api_key
    /\ ai_pre_analysis' = <<>>
    /\ pc' = "advised"
    /\ UNCHANGED <<provider, analyzer, ai_analysis, final_result>>
    /\ UNCHANGED <<scheduling, extracted, runs>>

\* the handler: analyzer = AIAnalyzer(), which raises without an API key
NewAIAnalyzer ==
    /\ pc = "generated"
    /\ IF provider.api_key
       THEN /\ analyzer' = StartOfLoop
            /\ pc' = "analyzing"
       ELSE /\ analyzer' = analyzer
            /\ pc' = "constructor_raised"
    /\ UNCHANGED <<provider, ai_analysis, ai_pre_analysis, final_result>>
    /\ UNCHANGED <<scheduling, extracted, runs>>

\* analyze_schedule: one iteration of the loop over prompts
AnalyzePrompt ==
    /\ pc = "analyzing"
    /\ analyzer.next \in DOMAIN prompts
    /\ LET key == prompts[analyzer.next]
           results == analyzer.results
           previous_key == analyzer.previous_key
           reply == provider.replies[key]
           called == [analyzer EXCEPT !.previous_key = <<key>>,
                                      !.sent = Append(@, key),
                                      !.next = @ + 1]
       IN  IF analyzer.skip_remaining
           THEN /\ analyzer' =
                       [analyzer EXCEPT
                           !.results = Put(results, key,
                               <<WARNING, "Skipped: Previous AI analysis rate limited">>),
                           !.next = @ + 1]
                /\ pc' = pc
           ELSE IF /\ previous_key # <<>>
                   /\ previous_key[1] \in DOMAIN results
                   /\ startswith(results[previous_key[1]], WARNING)
           THEN /\ analyzer' =
                       [analyzer EXCEPT
                           !.skip_remaining = TRUE,
                           !.results = Put(results, key,
                               <<WARNING, "Skipped: Previous AI analysis failed">>),
                           !.next = @ + 1]
                /\ pc' = pc
           ELSE IF "text" \in DOMAIN reply
           THEN /\ analyzer' =
                       [called EXCEPT
                           !.results = Put(results, key, strip(reply.text))]
                /\ pc' = pc
           ELSE LET handled == formatted_msg(reply.error)
                IN  IF "raises" \in DOMAIN handled
                    THEN /\ analyzer' = [called EXCEPT !.skip_remaining = TRUE]
                         /\ pc' = "analysis_raised"
                    ELSE /\ analyzer' =
                                [called EXCEPT
                                    !.results = Put(results, key, handled.text),
                                    !.skip_remaining =
                                        @ \/ handled.skip_remaining]
                         /\ pc' = pc
    /\ UNCHANGED <<provider, ai_analysis, ai_pre_analysis, final_result>>
    /\ UNCHANGED <<scheduling, extracted, runs>>

\* analyze_schedule after the loop: the dict it returns
AnalyzeReturn ==
    /\ pc = "analyzing"
    /\ analyzer.next \notin DOMAIN prompts
    /\ LET results == analyzer.results
           insights_text == Get(results, "insights", <<>>)
       IN  analyzer' =
               [analyzer EXCEPT !.returned =
                   <<[fairness_score |-> _calculate_fairness_score(statistics[1]),
                      fairness_analysis |-> Get(results, "fairness_analysis", <<>>),
                      insights |-> IF insights_text # <<>> THEN insights_text
                                   ELSE <<"AI insights generation skipped">>,
                      optimization_suggestions |->
                          <<"AI optimization suggestions available in insights above">>]>>]
    /\ pc' = "analysis_returned"
    /\ UNCHANGED <<provider, ai_analysis, ai_pre_analysis, final_result>>
    /\ UNCHANGED <<scheduling, extracted, runs>>

\* the handler: analyze_schedule returned; the analysis is dropped when both
\* texts are warnings
HandlerGotAnalysis ==
    /\ pc = "analysis_returned"
    /\ LET returned == analyzer.returned[1]
           all_rate_limited ==
               /\ startswith(Get(returned, "fairness_analysis", <<>>), WARNING)
               /\ startswith(Get(returned, "insights", <<>>), WARNING)
       IN  ai_analysis' = IF all_rate_limited THEN <<>> ELSE <<returned>>
    /\ pc' = "analyzed"
    /\ UNCHANGED <<provider, analyzer, ai_pre_analysis, final_result>>
    /\ UNCHANGED <<scheduling, extracted, runs>>

\* the handler: AIAnalyzer() or analyze_schedule raised
HandlerCaught ==
    /\ pc \in {"constructor_raised", "analysis_raised"}
    /\ ai_analysis' = <<>>
    /\ pc' = "analyzed"
    /\ UNCHANGED <<provider, analyzer, ai_pre_analysis, final_result>>
    /\ UNCHANGED <<scheduling, extracted, runs>>

\* the handler combines the results
Combine ==
    /\ pc = "analyzed"
    /\ LET schedule_result == [statistics |-> statistics[1]]
           with_pre == IF ai_pre_analysis # <<>>
                       THEN Put(schedule_result, "ai_pre_analysis",
                                ai_pre_analysis[1])
                       ELSE schedule_result
           with_analysis == IF ai_analysis # <<>>
                            THEN Put(with_pre, "ai_analysis", ai_analysis[1])
                            ELSE with_pre
       IN  final_result' =
               <<IF /\ ai_analysis # <<>>
                    /\ Get(ai_analysis[1], "fairness_score", 10000) < 8500
                 THEN Put(with_analysis, "optimization_suggestions",
                          [current_fairness |-> ai_analysis[1].fairness_score,
                           target_fairness |-> 8500,
                           suggestions |->
                               Get(ai_analysis[1], "optimization_suggestions", <<>>)])
                 ELSE with_analysis>>
    /\ pc' = "responded"
    /\ UNCHANGED <<provider, analyzer, ai_analysis, ai_pre_analysis>>
    /\ UNCHANGED <<scheduling, extracted, runs>>

AdvisorNext ==
    \/ AnalyzeRequirements
    \/ PreAnalysisSkipped
    \/ NewAIAnalyzer
    \/ AnalyzePrompt
    \/ AnalyzeReturn
    \/ HandlerGotAnalysis
    \/ HandlerCaught
    \/ Combine

AdvisorSpec == AdvisorInit /\ [][AdvisorNext]_vars


\* --------------------------------------------------------- successive runs
\* Runs of ShiftScheduler(...).generate_schedule() on the same files, with
\* the same solver and seed: in every run the solver returns the verdict
\* `status` with the valuation `solution`.  The wall clock advances.

\* datetime.now().date(), as a day number
Date(t) == t \div TicksPerDay

\* self.dates: num_days days starting from start_date
dates(start_date) == [i \in 1..num_days |-> start_date + (i - 1)]

\* the assignments with 'date': str(self.dates[d])
Dated(sched, ds) ==
    [i \in DOMAIN sched |-> [sched[i] EXCEPT !.date = ds[@ + 1]]]

\* the result of a run whose solver returns verdict v with valuation value
Result(v, value) ==
    LET ds == dates(Date(now))
        sched == Dated(_extract_schedule(value), ds)
    IN  [status |-> Envelope(v).status,
         solver_status |-> Envelope(v).solver_status,
         generated_at |-> now,
         dates |-> ds,
         employees |-> employees,
         locations |-> locations,
         shifts |-> num_shifts_per_day,
         schedule |-> sched,
         statistics |-> _calculate_statistics(sched)]

RunsInit ==
    /\ employees \in EmployeeRosters
    /\ locations \in LocationRosters
    /\ num_shifts_per_day \in 0..MaxShifts
    /\ num_employees * num_locations * num_shifts_per_day * StatDays
           <= MaxRunKeys
    /\ min_employees_per_shift = DefaultMinEmployeesPerShift
    /\ pc = "solved"
    /\ day = num_days
    /\ today = {}
    /\ week_shifts = ZeroShifts
    /\ optimum = 0
    /\ status \in {<<OPTIMAL>>, <<FEASIBLE>>}
    /\ result = <<>>
    /\ raised = <<>>
    /\ suggested_constraints = <<>>
    /\ solution \in SUBSET StatKeys
    /\ schedule = <<>>
    /\ statistics = <<>>
    /\ NoAdvisors
    /\ NoRuns

\* time passes
Tick ==
    /\ now < MaxTicks
    /\ now' = now + 1
    /\ UNCHANGED envelopes
    /\ UNCHANGED <<scheduling, extracted, advisors, pc>>

\* one run of the scheduler returns its result
Run ==
    /\ Len(envelopes) < MaxRuns
    /\ envelopes' = Append(envelopes, Result(status[1], solution))
    /\ UNCHANGED now
    /\ UNCHANGED <<scheduling, extracted, advisors, pc>>

RunsNext == Tick \/ Run

RunsSpec == RunsInit /\ [][RunsNext]_vars


\* ------------------------------------------------------------ scenario T3
\* Ten employees with the same skill, one location of capacity 10, three
\* shift templates and the default parameters.  The model of T3 has 420
\* variables; T3Spec follows the runs in which the time limit ends the
\* solver's search with a valuation: each day has one of the valuations
\* Rota(double), which are some of the valuations the solver can hold.

\* every employee works the shift of its index modulo 3; the employees of
\* double work the first and the last shift instead
Rota(double) ==
    {k \in Employees \X Locations \X Shifts :
        IF k[1] \in double THEN k[3] \in {0, num_shifts_per_day - 1}
        ELSE k[3] = k[1] % num_shifts_per_day}
Rotas == {Rota(double) : double \in SUBSET {0, 1}}

T3Init ==
    /\ employees = [i \in 1..10 |-> Emp({"a"})]
    /\ locations = <<LocCap({"a"}, 10)>>
    /\ num_shifts_per_day = 3
    /\ min_employees_per_shift = DefaultMinEmployeesPerShift
    /\ pc = "constructed"
    /\ day = 0
    /\ today = {}
    /\ week_shifts = ZeroShifts
    /\ optimum = 0
    /\ status = <<>>
    /\ result = <<>>
    /\ raised = <<>>
    /\ suggested_constraints = <<>>
    /\ solution = {}
    /\ schedule = <<>>
    /\ statistics = <<>>
    /\ NoAdvisors
    /\ NoRuns

\* generate_schedule builds the model and calls solver.Solve, which will
\* not prove an optimum within the time limit
BeginSearch ==
    /\ pc = "constructed"
    /\ pc' = "solving"
    /\ UNCHANGED <<employees, locations, num_shifts_per_day,
                   min_employees_per_shift, day, today, week_shifts, optimum,
                   status, result, raised, suggested_constraints>>
    /\ UNCHANGED extracted
    /\ UNCHANGED <<advisors, runs>>

T3Next ==
    \/ BeginSearch
    \/ \E x \in Rotas : SolveDay(x)
    \/ SolverFound(FEASIBLE)
    \/ SolverGaveUp(UNKNOWN)

T3Spec == T3Init /\ [][T3Next]_vars


\* ------------------------------------------------------------------ claims
\* the skills of employee e and the required skills of location l
SkillsOf(e) == Get(employees[e + 1], "skills", {})
RequiredOf(l) == Get(locations[l + 1], "required_skills", {})
Compatible(e, l) == (SkillsOf(e) \cap RequiredOf(l)) # {}

\* the employees assigned to cell (l, s) of the day `today`
Assigned(l, s) == {e \in Employees : <<e, l, s>> \in today}
\* employee e has an assignment on shift s of the day `today`
Works(e, s) == \E l \in Locations : <<e, l, s>> \in today
\* cell (l, s) has a compatible employee
Supported(l) == \E e \in Employees : Compatible(e, l)
\* the range a cell's number of assignees must be in
InCellRange(n, l) ==
    /\ n >= min_employees_per_shift
    /\ n <= (IF "capacity" \in DOMAIN locations[l + 1]
             THEN locations[l + 1].capacity ELSE 20)

\* the three input collections are non-empty
NonEmptyInputs ==
    num_employees > 0 /\ num_locations > 0 /\ num_shifts_per_day > 0

\* C1: in a returned schedule no employee has assignments on two adjacent
\* shifts s and s+1 of one day, whatever the employee's locations and
\* whatever the number of shifts (stated for the schedule's last day).
C1_NoAdjacentShifts ==
    pc = "returned" =>
        \A e \in Employees : \A s \in Shifts :
            (s + 1) \in Shifts => ~(Works(e, s) /\ Works(e, s + 1))

\* C2: in a returned schedule every employee of the input, also one that is
\* compatible with no location, has between min_shifts_per_employee_per_week
\* and max_shifts_per_employee_per_week assignments in each of the two weeks
\* (stated for non-empty input collections).
C2_WeeklyBoundsForEveryEmployee ==
    (pc = "returned" /\ NonEmptyInputs) =>
        \A e \in Employees : \A w \in 0..1 :
            /\ week_shifts[e][w] >= min_shifts_per_employee_per_week
            /\ week_shifts[e][w] <= max_shifts_per_employee_per_week

\* C3 as claimed: in a returned schedule every cell (day, location, shift),
\* with or without a compatible employee, has at least
\* min_employees_per_shift and at most capacity assignees (stated for the
\* schedule's last day and for non-empty input collections).
C3_EveryCellInRange ==
    (pc = "returned" /\ NonEmptyInputs) =>
        \A l \in Locations : \A s \in Shifts :
            InCellRange(Cardinality(Assigned(l, s)), l)

\* C3 as amended: on every day the solver fixes, a cell of a location with a
\* compatible employee has between min_employees_per_shift and capacity
\* assignees, and a cell of a location with no compatible employee has none.
C3_SupportedCellsInRange ==
    day > 0 =>
        \A l \in Locations : \A s \in Shifts :
            IF Supported(l)
            THEN InCellRange(Cardinality(Assigned(l, s)), l)
            ELSE Assigned(l, s) = {}

\* C3 witness: a schedule is returned for a roster with a location that has a
\* compatible employee and a location that has none, and min is positive.
C3_Witness ==
    /\ pc = "returned"
    /\ min_employees_per_shift > 0
    /\ num_shifts_per_day > 0
    /\ \E l \in Locations : Supported(l) /\ Assigned(l, 0) # {}
    /\ \E l \in Locations : ~Supported(l)

\* C4: on every day the solver fixes, every cell with a compatible employee,
\* and so every cell with an assignment, has between min_employees_per_shift
\* and capacity assignees, the capacity being 20 for a location without one.
C4_CoverageAndCapacity ==
    day > 0 =>
        \A l \in Locations : \A s \in Shifts :
            (Supported(l) \/ Assigned(l, s) # {}) =>
                InCellRange(Cardinality(Assigned(l, s)), l)

\* C4 witness: a returned schedule whose last day has a cell of a location
\* without 'capacity' that holds two assignees, the default minimum.
C4_Witness ==
    /\ pc = "returned"
    /\ min_employees_per_shift = 2
    /\ \E l \in Locations : \E s \in Shifts :
           /\ "capacity" \notin DOMAIN locations[l + 1]
           /\ Cardinality(Assigned(l, s)) = 2

\* C5: every assignment binds an employee to a location with which the
\* employee shares a skill.
C5_AssignmentsCompatible ==
    day > 0 => \A k \in today : (SkillsOf(k[1]) \cap RequiredOf(k[2])) # {}

\* C5 witness: a returned schedule with an assignment, for a roster in which
\* the assigned employee is incompatible with another location.
C5_Witness ==
    /\ pc = "returned"
    /\ \E k \in today : \E l \in Locations : ~Compatible(k[1], l)

\* C6: an employee has at most one assignment per day and shift.
C6_NoDoubleBooking ==
    day > 0 =>
        \A e \in Employees : \A s \in Shifts :
            Cardinality({l \in Locations : <<e, l, s>> \in today}) <= 1

\* C6 witness: a returned schedule in which an employee compatible with two
\* locations works a shift.
C6_Witness ==
    /\ pc = "returned"
    /\ \E e \in Employees : \E s \in Shifts :
           /\ Works(e, s)
           /\ Cardinality({l \in Locations : Compatible(e, l)}) = 2

\* C7: generate_schedule returns an envelope exactly when the verdict is
\* OPTIMAL (status SUCCESS, solver_status OPTIMAL) or FEASIBLE (status and
\* solver_status FEASIBLE); any other verdict raises an error carrying the
\* verdict's code and leaves no envelope.
C7_EnvelopeIffSolved ==
    /\ status = <<>> => (result = <<>> /\ raised = <<>> /\ pc \notin {"returned", "raised"})
    /\ status = <<OPTIMAL>> =>
           /\ pc = "returned" /\ raised = <<>> /\ Len(result) = 1
           /\ result[1].status = "SUCCESS" /\ result[1].solver_status = "OPTIMAL"
    /\ status = <<FEASIBLE>> =>
           /\ pc = "returned" /\ raised = <<>> /\ Len(result) = 1
           /\ result[1].status = "FEASIBLE" /\ result[1].solver_status = "FEASIBLE"
    /\ status \notin {<<>>, <<OPTIMAL>>, <<FEASIBLE>>} =>
           /\ pc = "raised" /\ raised = status /\ result = <<>>

\* C7 witness: the solver stopped at a valuation it did not prove optimal and
\* generate_schedule returned the envelope.
C7_Witness ==
    /\ status = <<FEASIBLE>>
    /\ result # <<>>
    /\ MinShifts(week_shifts) < optimum

\* C8: with no employees, no locations or no shifts generate_schedule
\* returns no envelope.
C8_EmptyInputAborts ==
    (num_employees = 0 \/ num_locations = 0 \/ num_shifts_per_day = 0) =>
        (pc # "returned" /\ result = <<>>)

\* C9: with min_shifts_per_employee_per_week above
\* max_shifts_per_employee_per_week, or min_employees_per_shift above the
\* smallest capacity, or a location of capacity 0 or less, generate_schedule
\* returns no envelope (stated for non-empty input collections).
C9_InvalidParametersAbort ==
    (/\ NonEmptyInputs
     /\ \/ min_shifts_per_employee_per_week > max_shifts_per_employee_per_week
        \/ \E l \in Locations : min_employees_per_shift > Capacity(l)
        \/ \E l \in Locations : Capacity(l) <= 0) =>
        (pc # "returned" /\ result = <<>>)

\* the locations that have a compatible employee
SupportedLocations == {l \in Locations : Supported(l)}

\* C10 as claimed: if E * max_week < D * L * S * min_per_shift, no schedule
\* is returned (stated for rosters in which every employee is compatible
\* with every location).
C10_InfeasibleByVolume ==
    (/\ NonEmptyInputs
     /\ \A e \in Employees : \A l \in Locations : Compatible(e, l)
     /\ num_employees * max_shifts_per_employee_per_week
            < num_days * num_locations * num_shifts_per_day
                  * min_employees_per_shift)
        => (pc # "returned" /\ result = <<>>)

\* C10 as amended: if 2 * E * max_week < D * L' * S * min_per_shift, where
\* L' counts the locations that have a compatible employee, no schedule is
\* returned, and a verdict, once given, is INFEASIBLE or UNKNOWN and raised.
C10_InfeasibleByTwoWeekVolume ==
    (2 * num_employees * max_shifts_per_employee_per_week
        < num_days * Cardinality(SupportedLocations) * num_shifts_per_day
              * min_employees_per_shift)
        => /\ pc # "returned" /\ result = <<>>
           /\ status # <<>> => (status \in {<<INFEASIBLE>>, <<UNKNOWN>>}
                                /\ raised = status)

\* C10 witness: the solver found the model of such a roster infeasible.
C10_Witness ==
    /\ 2 * num_employees * max_shifts_per_employee_per_week
          < num_days * Cardinality(SupportedLocations) * num_shifts_per_day
                * min_employees_per_shift
    /\ raised = <<INFEASIBLE>>

\* the fairness floor m of a schedule: the smallest total of an employee of
\* the input, with or without a compatible location
FairnessFloor(ws) == SetMin({ws[e][0] + ws[e][1] : e \in Employees})

\* the largest fairness floor of a schedule that satisfies constraints 1-5
BestFairnessFloor ==
    SetMax({SetMin({a[e] + b[e] : e \in Employees}) :
               a \in WeekTotals(0), b \in WeekTotals(1)})

\* C11: a schedule returned with the verdict OPTIMAL maximizes the fairness
\* floor, the minimum over every employee of the input of the employee's
\* total: no schedule satisfying constraints 1-5 has a larger one.
C11_OptimalMaximizesFloor ==
    (pc = "returned" /\ status = <<OPTIMAL>> /\ num_employees > 0) =>
        FairnessFloor(week_shifts) = BestFairnessFloor

\* C11 witness: an OPTIMAL schedule whose floor is above the weekly minimum
\* of both weeks, which a schedule of the same model has as its floor.
C11_Witness ==
    /\ pc = "returned" /\ status = <<OPTIMAL>> /\ num_employees > 0
    /\ FairnessFloor(week_shifts) > 2 * min_shifts_per_employee_per_week
    /\ \E a \in WeekTotals(0) : \E b \in WeekTotals(1) :
           SetMin({a[e] + b[e] : e \in Employees})
               = 2 * min_shifts_per_employee_per_week

\* the scheduler's parameter an honored key of suggested_constraints sets
Parameter(key) ==
    CASE key = "min_employees_per_shift" -> min_employees_per_shift
      [] key = "min_shifts_per_week" -> min_shifts_per_employee_per_week
      [] key = "max_shifts_per_week" -> max_shifts_per_employee_per_week

\* C12: once main has read the advisor's suggested_constraints, each of the
\* keys min_employees_per_shift, min_shifts_per_week and max_shifts_per_week
\* present in them is the value of the scheduler's parameter when
\* generate_schedule runs; without suggestions the defaults 2, 5, 10 stay
\* (stated for non-empty input collections).
C12_OverridesMerged ==
    (pc \in {"solving", "returned", "raised"} /\ NonEmptyInputs) =>
        IF suggested_constraints = <<>>
        THEN /\ min_employees_per_shift = 2
             /\ min_shifts_per_employee_per_week = 5
             /\ max_shifts_per_employee_per_week = 10
        ELSE \A key \in {"min_employees_per_shift", "min_shifts_per_week",
                          "max_shifts_per_week"} :
                 key \in DOMAIN suggested_constraints[1] =>
                     Parameter(key) = suggested_constraints[1][key]

\* the indices (e, d, l, s) an assignment record names
KeyOf(a) == <<a.employee_id - 1, a.date, a.location_id - 1, a.shift_id - 1>>

\* j is before k in the lexicographic order of (e, d, l, s)
LexLess(j, k) ==
    \E n \in 1..4 : j[n] < k[n] /\ \A m \in 1..(n - 1) : j[m] = k[m]

\* C13: the list _extract_schedule returns has one record for each key of
\* `shifts` whose variable is 1 and no other record, the records name the
\* indices of their key, and they are in strictly increasing lexicographic
\* order of (e, d, l, s).
C13_ExtractionInOrder ==
    pc \in {"extracted", "calculated"} =>
        /\ {KeyOf(schedule[i]) : i \in DOMAIN schedule} = solution
        /\ Len(schedule) = Cardinality(solution)
        /\ \A i \in DOMAIN schedule :
               LET k == KeyOf(schedule[i])
               IN  /\ InShifts(k[1], k[2], k[3], k[4])
                   /\ schedule[i] = Assignment(k[1], k[2], k[3], k[4])
        /\ \A i \in 1..(Len(schedule) - 1) :
               LexLess(KeyOf(schedule[i]), KeyOf(schedule[i + 1]))

\* C13 witness: a list extracted from a valuation with 1s for two employees
\* on two days and a 0 on a key of `shifts`.
C13_Witness ==
    /\ pc = "extracted"
    /\ Len(schedule) >= 3
    /\ \E i, j \in DOMAIN schedule :
           /\ schedule[i].employee_id # schedule[j].employee_id
           /\ schedule[i].date # schedule[j].date
    /\ StatKeys \ solution # {}

\* cnt_e: the number of assignments of employee e in the schedule
Cnt(e) == Cardinality({i \in DOMAIN schedule : schedule[i].employee_id = e + 1})

\* the employees without an assignment are those without a variable, as in
\* a schedule that satisfies the weekly minimum of constraint 5
IdleOnlyWithoutVars == \A e \in Employees : HasVars(e) => Cnt(e) > 0

\* C14: min_shifts_per_employee, max_shifts_per_employee and
\* avg_shifts_per_employee of the statistics are the minimum, the maximum
\* and the mean of cnt_e over all the employees of the input, cnt_e being 0
\* for an employee without assignment (stated for a non-empty roster).
C14_MinMaxAvgOverAllEmployees ==
    (pc = "calculated" /\ num_employees > 0 /\ IdleOnlyWithoutVars) =>
        LET counts == {Cnt(e) : e \in Employees}
            stats == statistics[1]
        IN  /\ stats.min_shifts_per_employee = SetMin(counts)
            /\ stats.max_shifts_per_employee = SetMax(counts)
            /\ stats.avg_shifts_per_employee.num * num_employees
                   = Len(schedule) * stats.avg_shifts_per_employee.den

\* the number of assignments of employee e on shift type s
CntType(e, s) ==
    Cardinality({i \in DOMAIN schedule :
        schedule[i].employee_id = e + 1 /\ schedule[i].shift_id = s + 1})

\* employee e's assignments are spread evenly over the S shift types
UniformOverShiftTypes(e) ==
    \A s1 \in Shifts : \A s2 \in Shifts : CntType(e, s1) = CntType(e, s2)

\* C15: avg_shift_diversity is between 0 and 100, and it is 100 exactly
\* when every employee that has an assignment has its assignments spread
\* evenly over the S shift types, for every S (stated for non-empty
\* schedules and at least two shift types; values are in hundredths).
C15_ShiftDiversityRange ==
    (pc = "calculated" /\ schedule # <<>> /\ num_shifts_per_day >= 2) =>
        /\ statistics[1].avg_shift_diversity >= 0
        /\ statistics[1].avg_shift_diversity <= 10000
        /\ statistics[1].avg_shift_diversity = 10000
               <=> \A e \in Employees : Cnt(e) > 0 => UniformOverShiftTypes(e)

\* C16: load_balance_score is between 0 and 100, and it is 100 exactly when
\* the shift counts cnt_e of all the employees are equal, the empty
\* schedule, where every count is 0, included (stated for non-empty input
\* collections; values are in hundredths).
C16_LoadBalanceRange ==
    (pc = "calculated" /\ NonEmptyInputs /\ IdleOnlyWithoutVars) =>
        /\ statistics[1].load_balance_score >= 0
        /\ statistics[1].load_balance_score <= 10000
        /\ statistics[1].load_balance_score = 10000
               <=> \A e1 \in Employees : \A e2 \in Employees :
                       Cnt(e1) = Cnt(e2)

\* the locations employee e is assigned to
LocationsOf(e) ==
    {schedule[i].location_id :
        i \in {j \in DOMAIN schedule : schedule[j].employee_id = e + 1}}

\* C17: location_diversity_rate is 100 times the number of employees that
\* are assigned to at least two distinct locations, divided by the number E
\* of employees of the input roster (stated for non-empty input
\* collections; values are in hundredths).
C17_DiversityRateOverRoster ==
    (pc = "calculated" /\ NonEmptyInputs /\ IdleOnlyWithoutVars) =>
        statistics[1].location_diversity_rate
            = RoundDiv(10000 * Cardinality({e \in Employees :
                                   Cardinality(LocationsOf(e)) >= 2}),
                       num_employees)

\* C18: total_assignments of the statistics is the length of the schedule
\* list of the same result.
C18_TotalIsScheduleLength ==
    pc = "calculated" => statistics[1].total_assignments = Len(schedule)

\* C18 witness: statistics of a schedule in which an employee has several
\* assignments and another employee has one.
C18_Witness ==
    /\ pc = "calculated"
    /\ \E e1, e2 \in Employees : Cnt(e1) >= 2 /\ Cnt(e2) = 1
    /\ statistics[1].total_assignments >= 3

\* the number of conflicts of the day `today`: cells above capacity,
\* employees with two assignments on one shift, employees on two adjacent
\* shifts
ActualConflicts ==
    Cardinality({c \in Locations \X Shifts :
                    Cardinality(Assigned(c[1], c[2])) > Capacity(c[1])})
    + Cardinality({c \in Employees \X Shifts :
                      Cardinality({l \in Locations :
                                      <<c[1], l, c[2]>> \in today}) > 1})
    + Cardinality({c \in Employees \X Shifts :
                      /\ (c[2] + 1) \in Shifts
                      /\ Works(c[1], c[2]) /\ Works(c[1], c[2] + 1)})

\* C19: conflicts_detected is 0 in every result and is the number of
\* conflicts of the returned schedule: none of its cells is above capacity,
\* none of its employees is double-booked or on two adjacent shifts (stated
\* for the schedule's last day).
C19_ConflictsTruthful ==
    pc = "returned" => (conflicts = 0 /\ conflicts = ActualConflicts)

\* C20: a location whose required_skills is empty or missing is
\* unreachable: no employee is compatible with it, it has no decision
\* variable, and no day of a schedule has an assignment at it.
C20_EmptyRequirementsUnreachable ==
    \A l \in Locations :
        ("required_skills" \notin DOMAIN locations[l + 1]
             \/ locations[l + 1].required_skills = {}) =>
            /\ \A e \in Employees :
                   ~_employee_has_required_skills(employees[e + 1],
                                                  locations[l + 1])
            /\ \A e \in Employees : \A d \in Days : \A s \in Shifts :
                   ~InShifts(e, d, l, s)
            /\ \A k \in today : k[2] # l

\* C20 witness: a schedule is returned, with assignments on its last day,
\* for a roster with a location without the key required_skills and an
\* employee that has a skill.
C20_Witness ==
    /\ pc = "returned"
    /\ today # {}
    /\ \E l \in Locations : "required_skills" \notin DOMAIN locations[l + 1]
    /\ \E e \in Employees : SkillsOf(e) # {}

\* the employees compatible with location l: the support of its cells
SupportOf(l) == {e \in Employees : Compatible(e, l)}

\* some cell has a non-empty support smaller than min_employees_per_shift
ShortCell ==
    /\ num_shifts_per_day > 0
    /\ \E l \in Locations :
           /\ SupportOf(l) # {}
           /\ Cardinality(SupportOf(l)) < min_employees_per_shift

\* C21: when some cell has a non-empty support with fewer employees than
\* min_employees_per_shift, the solver fixes no day, no schedule is returned
\* and generate_schedule ends only by raising the solver's verdict
C21_ShortSupportFails ==
    (pc \in {"solving", "returned", "raised"} /\ ShortCell) =>
        /\ day = 0
        /\ pc # "returned"
        /\ result = <<>>
        /\ status # <<>> =>
               (raised = status /\ status[1] \in {INFEASIBLE, UNKNOWN})

\* a short cell made the solver report INFEASIBLE, which was raised
C21_Witness ==
    /\ ShortCell
    /\ pc = "raised"
    /\ raised = <<INFEASIBLE>>

\* C23: with min_employees_per_shift = 0 a returned schedule still satisfies
\* capacity, no double-booking, no adjacent shifts and, for every employee
\* with a compatible location, the weekly bounds (stated for the schedule's
\* last day and both weeks, and for non-empty input collections)
C23_VacuousCoverageKeepsOthers ==
    (pc = "returned" /\ min_employees_per_shift = 0 /\ NonEmptyInputs) =>
        /\ \A l \in Locations : \A s \in Shifts :
               Cardinality(Assigned(l, s)) <= Capacity(l)
        /\ \A e \in Employees : \A s \in Shifts :
               Cardinality({l \in Locations : <<e, l, s>> \in today}) <= 1
        /\ \A e \in Employees : \A s \in Shifts :
               (s + 1) \in Shifts => ~(Works(e, s) /\ Works(e, s + 1))
        /\ \A e \in Employees : \A w \in 0..(NumWeeks - 1) :
               HasVars(e) =>
                   /\ week_shifts[e][w] >= min_shifts_per_employee_per_week
                   /\ week_shifts[e][w] <= max_shifts_per_employee_per_week

\* ---- the model generate_schedule builds for the same employees, shifts
\* and parameters and another list of locations locs
KeysFor(locs) ==
    {k \in Employees \X (0..(Len(locs) - 1)) \X Shifts :
        (SkillsOf(k[1]) \cap Get(locs[k[2] + 1], "required_skills", {})) # {}}

\* constraints 1-4 of one day on the valuation x of the keys K of locs
DayOKFor(locs, K, x) ==
    /\ \A l \in 0..(Len(locs) - 1) : \A s \in Shifts :
           LET support == {e \in Employees : <<e, l, s>> \in K}
               n == Cardinality({e \in support : <<e, l, s>> \in x})
           IN  support # {} =>
                   /\ n >= min_employees_per_shift
                   /\ n <= Get(locs[l + 1], "capacity", DefaultCapacity)
    /\ \A e \in Employees : \A s \in Shifts :
           Cardinality({k \in x : k[1] = e /\ k[3] = s}) <= 1
    /\ \A e \in Employees : \A p \in {<<0, 1>>, <<1, 2>>} :
           (<<e, 0, p[1]>> \in K /\ <<e, 0, p[2]>> \in K) =>
               ~\E j \in x : \E k \in x :
                   j[1] = e /\ k[1] = e /\ j[3] = p[1] /\ k[3] = p[2]

\* per-employee totals reachable in the first n days of a week of locs
RECURSIVE TotalsFor(_, _)
TotalsFor(locs, n) ==
    IF n = 0 THEN {[e \in Employees |-> 0]}
    ELSE LET K == KeysFor(locs)
             counts == {[e \in Employees |-> DayCount(x, e)] :
                           x \in {y \in SUBSET K : DayOKFor(locs, K, y)}}
             totals == {[e \in Employees |-> v[e] + c[e]] :
                           v \in TotalsFor(locs, n - 1), c \in counts}
         IN  {t \in totals : \A e \in Employees :
                 t[e] <= max_shifts_per_employee_per_week}

\* the model of locs has a valuation: both weeks have seven days and the
\* same constraints
FeasibleFor(locs) ==
    \E t \in TotalsFor(locs, DaysPerWeek) : \A e \in Employees :
        (\E k \in KeysFor(locs) : k[1] = e) =>
            t[e] >= min_shifts_per_employee_per_week

\* the list of locations without the location of index l
Without(l) ==
    [i \in 1..(num_locations - 1) |->
        IF i <= l THEN locations[i] ELSE locations[i + 1]]

\* C25: a location no employee is compatible with receives no assignment on
\* any day the solver fixes, and it never makes the model infeasible: when
\* generate_schedule raises INFEASIBLE, the same inputs without that
\* location are infeasible as well
C25_EmptySupportSkipped ==
    \A l \in Locations : ~Supported(l) =>
        /\ \A s \in Shifts : Assigned(l, s) = {}
        /\ raised = <<INFEASIBLE>> => ~FeasibleFor(Without(l))

\* a schedule is returned although a location without compatible employee
\* has cells below a positive min_employees_per_shift
C25_Witness ==
    /\ pc = "returned"
    /\ min_employees_per_shift > 0
    /\ num_shifts_per_day > 0
    /\ today # {}
    /\ \E l \in Locations : ~Supported(l)

\* the valuation x of the variables of day `day` satisfies constraints 1-4
\* of that day and keeps constraint 5 of its week satisfiable
AdmittedToday(x) ==
    LET w == WeekOf(day)
    IN  /\ DayConstraints(x, day)
        /\ \A e \in Employees :
               /\ WeekMax(e, week_shifts[e][w] + DayCount(x, e))
               /\ LastDayOfWeek(day) =>
                      WeekMin(e, week_shifts[e][w] + DayCount(x, e))

\* in x some employee works the first shift after having worked the last
\* shift of the day before
WrapsAround(x) ==
    \E e \in Employees :
        /\ Works(e, num_shifts_per_day - 1)
        /\ \E l \in Locations : <<e, l, 0>> \in x

\* C26: whatever an employee worked on the day before, also its last shift,
\* the solver can give the next day every valuation that satisfies the
\* constraints of that day and of its week, also one in which the employee
\* works the first shift
C26_NoWrapAround ==
    (pc = "solving" /\ 0 < day /\ day < num_days) =>
        \A x \in SUBSET DayKeys(day) :
            (AdmittedToday(x) /\ WrapsAround(x)) => ENABLED SolveDay(x)

\* with three shifts and one location an employee has four shifts after two
\* days: shifts 0 and 2 on both days, the last shift of day 0 and the first
\* shift of day 1
C26_Witness ==
    /\ pc = "solving"
    /\ day = 2
    /\ num_shifts_per_day = 3
    /\ num_locations = 1
    /\ \E e \in Employees :
           /\ Compatible(e, 0)
           /\ week_shifts[e][0] = 4
           /\ Works(e, 0)

\* C30: _calculate_statistics of the empty schedule returns 0 for
\* total_assignments, the minimum, maximum and average shifts per employee,
\* load_balance_score, location_diversity_rate, avg_shift_diversity and the
\* summary's variance and coefficient_of_variation; of every schedule, the
\* values of shifts_per_employee, of shifts_per_location, of shifts_per_day
\* and of shifts_per_type each sum to total_assignments
C30_EmptyScheduleAndSums ==
    pc = "calculated" =>
        LET st == statistics[1]
            summary == st.optimization_summary
        IN  /\ schedule = <<>> =>
                   /\ st.total_assignments = 0
                   /\ st.min_shifts_per_employee = 0
                   /\ st.max_shifts_per_employee = 0
                   /\ st.avg_shifts_per_employee.num = 0
                   /\ st.load_balance_score = 0
                   /\ st.location_diversity_rate = 0
                   /\ st.avg_shift_diversity = 0
                   /\ summary.fairness.variance = 0
                   /\ summary.load_balancing.coefficient_of_variation = 0
            /\ Sum(st.shifts_per_employee) = st.total_assignments
            /\ Sum(st.shifts_per_location) = st.total_assignments
            /\ Sum(st.shifts_per_day) = st.total_assignments
            /\ Sum(st.shifts_per_type) = st.total_assignments

\* the statistics of an empty schedule of non-empty inputs were calculated
C30_Witness ==
    /\ pc = "calculated"
    /\ schedule = <<>>
    /\ NonEmptyInputs
    /\ StatKeys # {}

\* the locals of analyze_schedule, when it was called
Results == Get(analyzer, "results", <<>>)
Sent == Get(analyzer, "sent", <<>>)
Returned == Get(analyzer, "returned", <<>>)

\* the result stored for the prompt key is a warning
Failed(key) == key \in DOMAIN Results /\ startswith(Results[key], WARNING)

\* the prompts are sent in their order, and once the stored result of a
\* prompt is a warning no later prompt is sent: its result is a "Skipped"
\* warning
SkipsAfterFailure ==
    /\ \A i \in DOMAIN Sent : Sent[i] = prompts[i]
    /\ \A j \in DOMAIN prompts : \A i \in DOMAIN prompts :
           (i < j /\ Failed(prompts[i]) /\ prompts[j] \in DOMAIN Results) =>
               /\ ~Contains(Sent, prompts[j])
               /\ Results[prompts[j]] \in
                      {<<WARNING, "Skipped: Previous AI analysis rate limited">>,
                       <<WARNING, "Skipped: Previous AI analysis failed">>}

\* C27: analyze_schedule sends the prompts in order, sends no prompt after
\* a failed AI call and stores a "Skipped" warning for it, never raises
\* because an AI call failed, and returns a dict with fairness_score
C27_SkipsAfterFailureNeverRaises ==
    /\ SkipsAfterFailure
    /\ pc # "analysis_raised"
    /\ pc = "analysis_returned" => "fairness_score" \in DOMAIN Returned[1]

\* C28: when the AI call of analyze_scheduling_requirements succeeds the
\* result holds the AI text and the constraints _extract_constraints finds
\* in it; it holds the 'Analysis unavailable' text only when the call failed
C28_DefaultsOnlyWhenCallFails ==
    (pc = "advised" /\ provider.api_key) =>
        LET reply == provider.replies["requirements"]
            analysis == ai_pre_analysis[1]
        IN  /\ "text" \in DOMAIN reply =>
                   /\ analysis.ai_analysis = strip(reply.text)
                   /\ analysis.suggested_constraints =
                          _extract_constraints(strip(reply.text),
                                               employees, locations)
            /\ startswith(analysis.ai_analysis, "Analysis unavailable:") =>
                   "error" \in DOMAIN reply

\* C29: in the handler's final result, when analyze_schedule returned, the
\* ai_analysis section is missing exactly when fairness_analysis and
\* insights both are warnings; the section is present if and only if the
\* first AI call (fairness_analysis) was made and succeeded; and
\* optimization_suggestions is present only with the section and a
\* fairness_score below 85
C29_AnalysisSectionIffFirstCallSucceeded ==
    pc = "responded" =>
        LET response == final_result[1]
            present == "ai_analysis" \in DOMAIN response
        IN  /\ Returned # <<>> =>
                   (~present <=>
                       /\ startswith(Returned[1].fairness_analysis, WARNING)
                       /\ startswith(Returned[1].insights, WARNING))
            /\ present <=>
                   /\ Contains(Sent, "fairness_analysis")
                   /\ "fairness_analysis" \in DOMAIN Results
                   /\ ~Failed("fairness_analysis")
            /\ "optimization_suggestions" \in DOMAIN response =>
                   /\ present
                   /\ response["ai_analysis"].fairness_score < 8500

\* C24: two runs with identical inputs, solver and seed return envelopes
\* that are equal in every field except generated_at: status, dates,
\* employees, locations, shifts, schedule and statistics are equal (stated
\* for non-empty inputs and a schedule with an assignment)
C24_RunsAgreeExceptGeneratedAt ==
    (NonEmptyInputs /\ solution # {}) =>
        \A i \in DOMAIN envelopes : \A j \in DOMAIN envelopes :
            \A field \in DOMAIN envelopes[i] \ {"generated_at"} :
                envelopes[i][field] = envelopes[j][field]

\* the number of assignments of employee e in the two weeks
TotalOf(e) == week_shifts[e][0] + week_shifts[e][1]

\* C22: in scenario T3 every returned schedule, SUCCESS or FEASIBLE, has
\* max_shifts_per_employee - min_shifts_per_employee <= 2
C22_T3SpreadAtMostTwo ==
    pc = "returned" =>
        SetMax({TotalOf(e) : e \in Employees})
            - SetMin({TotalOf(e) : e \in Employees}) <= 2

====
